---- MODULE Spec2Model ----
(***************************************************************************)
(* pdm-bump: the dynamic version store (DynamicVersionConfig) and the     *)
(* resolver (DynamicVersionSource) of src/pdm_bump/dynamic.py, and the     *)
(* bump command (BumpCommand.handle) of src/pdm_bump/plugin.py.            *)
(*                                                                         *)
(* A text is a sequence of one-character strings.  Offsets of a match are  *)
(* 0-based and half-open, as re.Match.span gives them.                     *)
(* An optional value is <<>> (Python's None) or <<x>>.                     *)
(***************************************************************************)
EXTENDS Integers, Sequences, FiniteSets, TLC

VARIABLES
    files,      \* the file system: path -> text
    manifest,   \* pyproject.toml as Config sees it: key path -> value
    store,      \* a DynamicVersionConfig instance: its file and its cached_property slot
    cache,      \* DynamicVersionSource.__current_version
    ret,        \* what the last step was and what it gave back
    firstGet,   \* the first successful read of current_version since the cache was last set, if any
    changes,    \* how many out-of-band changes of a file or of the manifest happened
    pyproject   \* the manifest project.write_pyproject wrote last, if it wrote one

vars == <<files, manifest, store, cache, ret, firstGet, changes, pyproject>>

---------------------------------------------------------------------------
(* Bounds of the model *)

\* lines in a file of the initial file system
MaxLines == 2
\* out-of-band changes of a file or of the manifest in one run
MaxChanges == 2

---------------------------------------------------------------------------
(* Optional values *)

None == <<>>
Some(x) == <<x>>
Val(o) == o[1]

---------------------------------------------------------------------------
(* Texts *)

NL == "\n"
DQ == "\""
SQ == "'"

\* what \s matches (of the characters the model's texts use)
Whitespace == {" ", "\t", NL}
\* what ["'] matches
Quotes == {DQ, SQ}

\* the literal __version__ of the pattern
VersionKey == <<"_", "_", "v", "e", "r", "s", "i", "o", "n", "_", "_">>

Min(S) == CHOOSE x \in S : \A y \in S : x <= y
Max(S) == CHOOSE x \in S : \A y \in S : y <= x

\* text[a:b] of Python, for 0 <= a, b
Slice(text, a, b) == SubSeq(text, a + 1, b)
SliceFrom(text, a) == SubSeq(text, a + 1, Len(text))
SliceTo(text, b) == SubSeq(text, 1, b)

---------------------------------------------------------------------------
(* DEFAULT_REGEX, searched as re.search does: leftmost match, each         *)
(* quantifier in its backtracking order.  Positions below are 1-based      *)
(* indices of the next character to match; Len(text)+1 is the end.         *)

\* ^ and $ under re.M
AtLineStart(text, p) == p = 1 \/ text[p - 1] = NL
AtLineEnd(text, p) == p = Len(text) + 1 \/ text[p] = NL

\* where a greedy \s* from p stops when nothing makes it give back
WsEnd(text, p) ==
    Min({q \in p..(Len(text) + 1) : q = Len(text) + 1 \/ text[q] \notin Whitespace})

\* the end of the line p is on (where a greedy .* from p stops)
LineEnd(text, p) ==
    Min({q \in p..(Len(text) + 1) : AtLineEnd(text, q)})

\* the positions after \s* from p at which (?:#.*)?$ matches
TailStops(text, p) ==
    {q \in p..WsEnd(text, p) :
        AtLineEnd(text, q) \/ (q <= Len(text) /\ text[q] = "#")}

\* \s*(?:#.*)?$ from p: where the whole match ends (\s* greedy, the comment taken when there)
TailEnd(text, p) ==
    LET q == Max(TailStops(text, p))
    IN IF q <= Len(text) /\ text[q] = "#" THEN LineEnd(text, q) ELSE q

\* the ends e (1-based, exclusive) of (?P<version>.+?) started at vs for which the rest matches
VersionEnds(text, vs) ==
    {e \in (vs + 1)..Len(text) :
        /\ \A k \in vs..(e - 1) : text[k] # NL
        /\ text[e] \in Quotes
        /\ TailStops(text, e + 1) # {}}

\* ^__version__\s*=\s*["'] from p: the position after the opening quote, or 0
VersionStart(text, p) ==
    IF ~(AtLineStart(text, p) /\ p + Len(VersionKey) - 1 <= Len(text)
            /\ SubSeq(text, p, p + Len(VersionKey) - 1) = VersionKey)
    THEN 0
    ELSE LET eq == WsEnd(text, p + Len(VersionKey))
         IN IF ~(eq <= Len(text) /\ text[eq] = "=")
            THEN 0
            ELSE LET qt == WsEnd(text, eq + 1)
                 IN IF qt <= Len(text) /\ text[qt] \in Quotes THEN qt + 1 ELSE 0

MatchesAt(text, p) ==
    VersionStart(text, p) # 0 /\ VersionEnds(text, VersionStart(text, p)) # {}

\* the positions at which the pattern matches
MatchStarts(text) == {p \in 1..Len(text) : MatchesAt(text, p)}

\* pattern.search(text): None, or the match: span() and span("version"), 0-based
Search(text) ==
    LET starts == MatchStarts(text)
    IN IF starts = {}
       THEN None
       ELSE LET p == Min(starts)
                vs == VersionStart(text, p)
                ve == Min(VersionEnds(text, vs))
            IN Some([start |-> p - 1, end |-> TailEnd(text, ve + 1) - 1,
                     vstart |-> vs - 1, vend |-> ve - 1])

\* match.group("version")
Group(text, m) == Slice(text, m.vstart, m.vend)

---------------------------------------------------------------------------
(* The file system and the texts the model puts in it *)

ProjectRoot == "/proj"
FileNames == {"a.py", "b.py"}

\* root_path / file_path
PathJoin(root, name) == <<root, name>>
FilePaths == {PathJoin(ProjectRoot, n) : n \in FileNames}

\* __version__ = "1.2.3"  # comment
LineCommented ==
    VersionKey \o <<" ", "=", " ", DQ, "1", ".", "2", ".", "3", DQ, " ", " ", "#">>
        \o <<" ", "c", "o", "m", "m", "e", "n", "t">>
\* __version__='2.0'
LineSingleQuoted == VersionKey \o <<"=", SQ, "2", ".", "0", SQ>>
\* __version__ = "3" "4"      (the group takes 3" "4)
LineTwoStrings == VersionKey \o <<" ", "=", " ", DQ, "3", DQ, " ", DQ, "4", DQ>>
\* __version__ =              (the assignment goes on on the next line)
LineOpen == VersionKey \o <<" ", "=">>
\* "5"
LineString == <<DQ, "5", DQ>>
\*  __version__ = "6"         (indented: ^ does not match)
LineIndented == <<" ">> \o VersionKey \o <<" ", "=", " ", DQ, "6", DQ>>
\* import os
LineOther == <<"i", "m", "p", "o", "r", "t", " ", "o", "s">>

Lines ==
    {LineCommented, LineSingleQuoted, LineTwoStrings, LineOpen, LineString,
     LineIndented, LineOther, <<>>}

\* the texts of 1..n lines, joined by newlines
RECURSIVE TextsOf(_)
TextsOf(n) ==
    IF n <= 1 THEN Lines
    ELSE TextsOf(n - 1) \cup {t \o <<NL>> \o l : t \in TextsOf(n - 1), l \in Lines}

Texts == TextsOf(MaxLines)

\* the version strings a caller writes
NewVersions == {<<"9", ".", "9", ".", "9">>, <<"4">>}

---------------------------------------------------------------------------
(* What a step gave back *)

\* op: the operation, arg: its argument, kind: "ok" or the exception raised, site: the
\* exception's message or the expression that raised it, out: the value returned, io:
\* the files and manifest keys read and the files written, pre: the text a rewrite read
Returned(op, arg, out, io) ==
    [op |-> op, arg |-> arg, kind |-> "ok", site |-> "", out |-> out, io |-> io,
     pre |-> None]
Raised(op, arg, kind, site, io) ==
    [op |-> op, arg |-> arg, kind |-> kind, site |-> site, out |-> None, io |-> io,
     pre |-> None]

ReadOf(path) == <<"read", path>>
WriteOf(path) == <<"write", path>>
ManifestOf(key) == <<"manifest", key>>

---------------------------------------------------------------------------
(* DynamicVersionConfig *)

\* __init__: the instance holds its file; DEFAULT_REGEX is the only pattern in use.
\* slot is the instance's cached_property entry for dynamic_version: None until computed.
NewDynamicVersionConfig(path) == [file |-> path, slot |-> None]

\* the body of dynamic_version: read the file and search it
ReadVersion(text) ==
    LET match == Search(text)
    IN IF match # None THEN Some(Group(text, Val(match))) ELSE None

\* (mutant) the span of the whole match taken for the span of the version group
SplicedWholeMatch(text, m, new_version) ==
    SliceTo(text, m.start) \o new_version \o SliceFrom(text, m.end)

\* the new text replace_dynamic_version writes, given the match
Spliced(text, m, new_version) ==
    SliceTo(text, m.vstart) \o new_version \o SliceFrom(text, m.vend)

\* a caller constructs a store on a file
Construct(path) ==
    /\ store' = NewDynamicVersionConfig(path)
    /\ ret' = Returned("construct", Some(path), None, {})
    /\ UNCHANGED <<pyproject, files, manifest, cache, firstGet, changes>>

\* store.dynamic_version (a cached_property: the body runs on the first access only)
DynamicVersion ==
    /\ IF store.slot # None
       THEN /\ ret' = Returned("dynamic_version", None, Val(store.slot), {})
            /\ UNCHANGED store
       ELSE LET version == ReadVersion(files[store.file])
            IN /\ store' = [store EXCEPT !.slot = Some(version)]
               /\ ret' = Returned("dynamic_version", None, version, {ReadOf(store.file)})
    /\ UNCHANGED <<pyproject, files, manifest, cache, firstGet, changes>>

\* (mutant) the file is opened for writing before the search: a failed call leaves it empty
LeftOnRaiseTruncated(version_file) == <<>>

\* the file's content after the raise of line 55: the file was opened "r" only
LeftOnRaise(version_file) == version_file

\* store.replace_dynamic_version(new_version)
ReplaceDynamicVersion(new_version) ==
    LET version_file == files[store.file]
        match == Search(version_file)
    IN /\ IF match = None
          THEN /\ ret' = [Raised("replace_dynamic_version", Some(new_version), "ValueError",
                                 "Failed to fetch version", {ReadOf(store.file)})
                             EXCEPT !.pre = Some(version_file)]
               /\ files' = [files EXCEPT ![store.file] = LeftOnRaise(version_file)]
          ELSE /\ files' = [files EXCEPT
                               ![store.file] = Spliced(version_file, Val(match), new_version)]
               /\ ret' = [Returned("replace_dynamic_version", Some(new_version), None,
                                   {ReadOf(store.file), WriteOf(store.file)})
                             EXCEPT !.pre = Some(version_file)]
       /\ UNCHANGED <<pyproject, manifest, store, cache, firstGet, changes>>

\* another process or the user edits a file
FileChange(path, text) ==
    /\ changes < MaxChanges
    /\ files[path] # text
    /\ files' = [files EXCEPT ![path] = text]
    /\ changes' = changes + 1
    /\ ret' = Returned("file_change", Some(path), None, {})
    /\ UNCHANGED <<pyproject, manifest, store, cache, firstGet>>

---------------------------------------------------------------------------
(* Config (src/pdm_bump/config.py is not among the sources): the manifest  *)
(* is the set of key paths present, each with its value.                   *)

KeyBackend == <<"build-system", "build-backend">>
KeySource == <<"tool", "pdm", "version", "source">>
KeyPath == <<"tool", "pdm", "version", "path">>
KeyDynamic == <<"project", "dynamic">>

\* config.get_pyproject_value(*key): the value, or None for a missing key
GetPyprojectValue(m, key) == IF key \in DOMAIN m THEN Some(m[key]) ELSE None

NoEntries == [k \in {} |-> k]
Entry(key, value) == IF value = None THEN NoEntries ELSE key :> Val(value)
Without(m, key) == [k \in DOMAIN m \ {key} |-> m[k]]
\* the manifest with key set to value, or removed when value is None
WithEntry(m, key, value) == Entry(key, value) @@ Without(m, key)

PdmBackend == "pdm.pep517.api"
FileSource == "file"

Backends == {None, Some(PdmBackend), Some("setuptools.build_meta")}
Sources == {None, Some(FileSource), Some("scm")}
PathValues == {None} \cup {Some(n) : n \in FileNames}
DynamicLists ==
    {None, Some(<<>>), Some(<<"readme">>), Some(<<"version">>),
     Some(<<"readme", "version">>)}

ValuesOf(key) ==
    CASE key = KeyBackend -> Backends
      [] key = KeySource -> Sources
      [] key = KeyPath -> PathValues
      [] key = KeyDynamic -> DynamicLists

Keys == {KeyBackend, KeySource, KeyPath, KeyDynamic}

Manifests ==
    {Entry(KeyBackend, b) @@ Entry(KeySource, s) @@ Entry(KeyPath, p)
        @@ Entry(KeyDynamic, d) :
        b \in Backends, s \in Sources, p \in PathValues, d \in DynamicLists}

---------------------------------------------------------------------------
(* Version and Pep440VersionFormatter (src/pdm_bump/version.py is not      *)
(* among the sources): a version is its release numbers; a version string  *)
(* is digit groups separated by dots.                                      *)

Digits == <<"0", "1", "2", "3", "4", "5", "6", "7", "8", "9">>
IsDigit(c) == \E i \in 1..Len(Digits) : Digits[i] = c
DigitValue(c) == (CHOOSE i \in 1..Len(Digits) : Digits[i] = c) - 1

\* the number a digit group stands for, read left to right from acc
RECURSIVE NumberOf(_, _)
NumberOf(text, acc) ==
    IF text = <<>> THEN acc
    ELSE NumberOf(Tail(text), acc * Len(Digits) + DigitValue(Head(text)))

\* the release numbers of text, or None when text is no version string
RECURSIVE ParseRelease(_)
ParseRelease(text) ==
    LET dots == {i \in 1..Len(text) : text[i] = "."}
        stop == IF dots = {} THEN Len(text) + 1 ELSE Min(dots)
        group == SubSeq(text, 1, stop - 1)
    IN IF group = <<>> \/ \E i \in 1..Len(group) : ~IsDigit(group[i])
       THEN None
       ELSE IF stop > Len(text)
            THEN Some(<<NumberOf(group, 0)>>)
            ELSE LET rest == ParseRelease(SubSeq(text, stop + 1, Len(text)))
                 IN IF rest = None THEN None
                    ELSE Some(<<NumberOf(group, 0)>> \o Val(rest))

\* the digits of n
RECURSIVE DigitsOf(_)
DigitsOf(n) ==
    IF n < Len(Digits) THEN <<Digits[n + 1]>>
    ELSE DigitsOf(n \div Len(Digits)) \o <<Digits[(n % Len(Digits)) + 1]>>

\* Pep440VersionFormatter().format(version): the canonical string
RECURSIVE Format(_)
Format(version) ==
    IF Len(version) = 1 THEN DigitsOf(version[1])
    ELSE DigitsOf(version[1]) \o <<".">> \o Format(Tail(version))

\* the versions a caller sets
Versions == {<<1, 2, 3>>, <<2, 0>>}

---------------------------------------------------------------------------
(* Outcomes of a call inside an operation *)

Ok(out, io) == [kind |-> "ok", site |-> "", out |-> out, io |-> io]
Err(kind, site, io) == [kind |-> kind, site |-> site, out |-> None, io |-> io]

\* the step's record of an outcome
AsRet(op, r) ==
    [op |-> op, arg |-> None, kind |-> r.kind, site |-> r.site, out |-> r.out, io |-> r.io,
     pre |-> None]

---------------------------------------------------------------------------
(* DynamicVersionConfig.find_dynamic_config *)

\* the condition of the if: both keys compared, the second only when the first holds
SelectsFileSource(m) ==
    /\ GetPyprojectValue(m, KeyBackend) = Some(PdmBackend)
    /\ GetPyprojectValue(m, KeySource) = Some(FileSource)

\* the keys the call reads (and short-circuits)
KeysRead(m) ==
    {ManifestOf(KeyBackend)}
        \cup (IF GetPyprojectValue(m, KeyBackend) = Some(PdmBackend)
              THEN {ManifestOf(KeySource)} ELSE {})
        \cup (IF SelectsFileSource(m) THEN {ManifestOf(KeyPath)} ELSE {})

\* find_dynamic_config(root_path, project_config): Some(store), None, or the
\* TypeError of root_path / None when the path key is missing
FindDynamicConfig(root_path, m) ==
    IF SelectsFileSource(m)
    THEN LET file_path == GetPyprojectValue(m, KeyPath)
         IN IF file_path = None
            THEN Err("TypeError", "root_path / file_path", KeysRead(m))
            ELSE Ok(Some(NewDynamicVersionConfig(PathJoin(root_path, Val(file_path)))),
                    KeysRead(m))
    ELSE Ok(None, KeysRead(m))

---------------------------------------------------------------------------
(* Names.  An identifier in a class body that begins with two underscores  *)
(* and does not end with two is rewritten to _Class + identifier before    *)
(* the code is compiled, also where it is read as a global.                *)

SourceClass == "DynamicVersionSource"

PrivateNames ==
    {"__find_dynamic_config", "__get_dynamic_version", "__replace_dynamic_version",
     "__current_version", "__project_root", "__config", "__file", "__pattern"}

\* the name the compiler looks up for an identifier written in class cls
Mangled(cls, name) == IF name \in PrivateNames THEN <<"_", cls, name>> ELSE <<name>>

\* the names bound at module level of dynamic.py (lines 10-23, 26, 88)
ModuleGlobals ==
    {<<"cached_property">>, <<"Path">>, <<"MultilinePattern">>, <<"Match">>,
     <<"Pattern">>, <<"compile_re">>, <<"Final">>, <<"Optional">>, <<"cast">>,
     <<"Config">>, <<"Pep440VersionFormatter">>, <<"Version">>, <<"DEFAULT_REGEX">>,
     <<"DynamicVersionConfig">>, <<"DynamicVersionSource">>}

\* whether a bare (global) use of name inside DynamicVersionSource finds a binding
GlobalBound(name) == Mangled(SourceClass, name) \in ModuleGlobals

\* the attributes and properties of a DynamicVersionConfig instance
ConfigAttributes ==
    {"file", "pattern", "dynamic_version", "replace_dynamic_version", "find_dynamic_config"}

---------------------------------------------------------------------------
(* DynamicVersionSource *)

\* (mutant) any list enables, whatever it holds
IsEnabledAnyList(m) == GetPyprojectValue(m, KeyDynamic) # None

\* is_enabled
IsEnabledValue(m) ==
    LET dynamic_items == GetPyprojectValue(m, KeyDynamic)
    IN dynamic_items # None
        /\ \E i \in 1..Len(Val(dynamic_items)) : Val(dynamic_items)[i] = "version"

\* (mutant) the cache is never taken: every read resolves again
IsCachedNever(current_version) == FALSE

\* the test of the first line of __get_current_version
IsCached(current_version) == current_version # None

\* self.__get_dynamic_version(): the store of the manifest as it is now
GetDynamicVersion(m) ==
    IF ~GlobalBound("__find_dynamic_config")
    THEN Err("NameError", "__find_dynamic_config", {})
    ELSE LET dynamic_version == FindDynamicConfig(ProjectRoot, m)
         IN IF dynamic_version.kind # "ok"
            THEN dynamic_version
            ELSE IF dynamic_version.out # None
                 THEN Ok(Val(dynamic_version.out), dynamic_version.io)
                 ELSE Err("ValueError", "Failed to extract dynamic version",
                          dynamic_version.io)

\* line 106: the bare call __get_dynamic_version(dynamic), were it bound to the
\* store's dynamic_version, on the store just constructed
ReadThrough(dynamic, fs) ==
    IF ~GlobalBound("__get_dynamic_version")
    THEN Err("NameError", "__get_dynamic_version", {})
    ELSE Ok(ReadVersion(fs[dynamic.file]), {ReadOf(dynamic.file)})

\* lines 110-113: the message is built first, and reads dynamic.regex
NotFoundError(io) ==
    IF "regex" \notin ConfigAttributes
    THEN Err("AttributeError", "regex", io)
    ELSE Err("ValueError", "Failed to find version", io)

\* __get_current_version on a resolver with nothing cached: the outcome, out being
\* the Version to cache and return
Resolve(m, fs) ==
    LET dynamic == GetDynamicVersion(m)
    IN IF dynamic.kind # "ok"
       THEN dynamic
       ELSE LET version == ReadThrough(dynamic.out, fs)
                io == dynamic.io \cup version.io
            IN IF version.kind # "ok"
               THEN Err(version.kind, version.site, io)
               ELSE IF version.out # None
                    THEN LET parsed == ParseRelease(Val(version.out))
                         IN IF parsed = None
                            THEN Err("ParseError", "Version.from_string", io)
                            ELSE Ok(parsed, io)
                    ELSE NotFoundError(io)

\* what firstGet keeps: the value read and the count of out-of-band changes then
Seen(version, at) == [value |-> version, at |-> at]

\* current_version (get)
GetCurrentVersion ==
    /\ IF IsCached(cache)
       THEN /\ ret' = Returned("current_version", None, cache, {})
            /\ firstGet' = IF firstGet = None THEN Some(Seen(Val(cache), changes)) ELSE firstGet
            /\ UNCHANGED cache
       ELSE LET r == Resolve(manifest, files)
            IN /\ ret' = AsRet("current_version", r)
               /\ cache' = IF r.kind = "ok" THEN r.out ELSE cache
               /\ firstGet' = IF r.kind = "ok" THEN Some(Seen(Val(r.out), changes)) ELSE None
    /\ UNCHANGED <<pyproject, files, manifest, store, changes>>

\* (mutant) a version already held is kept: only an empty cache takes the new one
SetCurrentVersionIfUnset(version) ==
    /\ cache' = IF cache = None THEN Some(version) ELSE cache
    /\ firstGet' = None
    /\ ret' = Returned("set_current_version", Some(version), None, {})
    /\ UNCHANGED <<pyproject, files, manifest, store, changes>>

\* current_version = version (set)
SetCurrentVersion(version) ==
    /\ cache' = Some(version)
    /\ firstGet' = None
    /\ ret' = Returned("set_current_version", Some(version), None, {})
    /\ UNCHANGED <<pyproject, files, manifest, store, changes>>

\* line 126: the bare call __replace_dynamic_version(config, ver), were it bound to
\* the store's replace_dynamic_version: the outcome, out being the text to write
WriteThrough(config, ver, fs) ==
    IF ~GlobalBound("__replace_dynamic_version")
    THEN Err("NameError", "__replace_dynamic_version", {})
    ELSE LET match == Search(fs[config.file])
         IN IF match = None
            THEN Err("ValueError", "Failed to fetch version", {ReadOf(config.file)})
            ELSE Ok(Some([file |-> config.file,
                          text |-> Spliced(fs[config.file], Val(match), ver)]),
                    {ReadOf(config.file), WriteOf(config.file)})

\* save_value with a version cached: format, derive the store, write
Save(current_version, m, fs) ==
    LET ver == Format(Val(current_version))
        config == GetDynamicVersion(m)
    IN IF config.kind # "ok"
       THEN config
       ELSE LET written == WriteThrough(config.out, ver, fs)
            IN [written EXCEPT !.io = config.io \cup written.io]

\* (mutant) the descriptor is derived before the cache is looked at
SaveOutcomeDeriveFirst(current_version, m, fs) ==
    LET config == GetDynamicVersion(m)
    IN IF config.kind # "ok"
       THEN config
       ELSE IF current_version = None
            THEN Err("ValueError", "No current value set", config.io)
            ELSE Save(current_version, m, fs)

\* the outcome of save_value
SaveOutcome(current_version, m, fs) ==
    IF current_version = None
    THEN Err("ValueError", "No current value set", {})
    ELSE Save(current_version, m, fs)

\* (mutant) the version held is dropped once save_value has run
SaveValueDiscarding ==
    LET r == SaveOutcome(cache, manifest, files)
    IN /\ ret' = AsRet("save_value", [r EXCEPT !.out = None])
       /\ files' = IF r.kind = "ok"
                   THEN [files EXCEPT ![Val(r.out).file] = Val(r.out).text]
                   ELSE files
       /\ cache' = None
       /\ UNCHANGED <<pyproject, manifest, store, firstGet, changes>>

\* save_value
SaveValue ==
    LET r == SaveOutcome(cache, manifest, files)
    IN /\ ret' = AsRet("save_value", [r EXCEPT !.out = None])
       /\ files' = IF r.kind = "ok"
                   THEN [files EXCEPT ![Val(r.out).file] = Val(r.out).text]
                   ELSE files
       /\ UNCHANGED <<pyproject, manifest, store, cache, firstGet, changes>>

\* is_enabled
IsEnabled ==
    /\ ret' = Returned("is_enabled", None, Some(IsEnabledValue(manifest)),
                    {ManifestOf(KeyDynamic)})
    /\ UNCHANGED <<pyproject, files, manifest, store, cache, firstGet, changes>>

\* DynamicVersionConfig.find_dynamic_config called on the manifest as it is
FindDynamicConfigCall ==
    /\ ret' = AsRet("find_dynamic_config", FindDynamicConfig(ProjectRoot, manifest))
    /\ UNCHANGED <<pyproject, files, manifest, store, cache, firstGet, changes>>

\* another process or the user edits the manifest: sets or removes one key
ManifestChange(key, value) ==
    /\ changes < MaxChanges
    /\ GetPyprojectValue(manifest, key) # value
    /\ manifest' = WithEntry(manifest, key, value)
    /\ changes' = changes + 1
    /\ ret' = Returned("manifest_change", Some(key), None, {})
    /\ UNCHANGED <<pyproject, files, store, cache, firstGet>>

---------------------------------------------------------------------------
(* pep440_version_utils.Version (imported at plugin.py line 6): a version  *)
(* is its release numbers and its pre-release, if it has one.  Of the      *)
(* spellings PEP 440 allows, ParseVersion reads the canonical one; the     *)
(* version strings of the model are canonical or no version at all.        *)

KeyVersion == <<"project", "version">>

Alpha == <<"a">>
Beta == <<"b">>
ReleaseCandidate == <<"r", "c">>
\* the pre-release kinds, lowest first
PreKinds == <<Alpha, Beta, ReleaseCandidate>>
Rank(kind) == CHOOSE i \in 1..Len(PreKinds) : PreKinds[i] = kind

PreRelease(kind, n) == Some([kind |-> kind, n |-> n])
VersionOf(release, pre) == [release |-> release, pre |-> pre]

\* Version(text): the version, or None where the constructor raises InvalidVersion
ParseVersion(text) ==
    LET letters == {i \in 1..Len(text) : ~IsDigit(text[i]) /\ text[i] # "."}
        stop == IF letters = {} THEN Len(text) + 1 ELSE Min(letters)
        release == ParseRelease(SubSeq(text, 1, stop - 1))
        rest == SubSeq(text, stop, Len(text))
        digits == {i \in 1..Len(rest) : IsDigit(rest[i])}
        kstop == IF digits = {} THEN Len(rest) + 1 ELSE Min(digits)
        kind == SubSeq(rest, 1, kstop - 1)
        number == SubSeq(rest, kstop, Len(rest))
    IN IF release = None THEN None
       ELSE IF rest = <<>> THEN Some(VersionOf(Val(release), None))
       ELSE IF /\ \E i \in 1..Len(PreKinds) : PreKinds[i] = kind
               /\ number # <<>>
               /\ \A i \in 1..Len(number) : IsDigit(number[i])
            THEN Some(VersionOf(Val(release), PreRelease(kind, NumberOf(number, 0))))
            ELSE None

\* version.major, version.minor, version.micro: 0 for a number the release lacks
Part(version, i) == IF Len(version.release) >= i THEN version.release[i] ELSE 0
Major(version) == Part(version, 1)
Minor(version) == Part(version, 2)
Micro(version) == Part(version, 3)

IsPrerelease(version) == version.pre # None

\* Version("{major}.{minor}.{micro}")
Final(major, minor, micro) == VersionOf(<<major, minor, micro>>, None)

\* str(version)
Str(version) ==
    Format(version.release)
        \o (IF version.pre = None THEN <<>>
            ELSE Val(version.pre).kind \o DigitsOf(Val(version.pre).n))

\* next_micro, next_minor, next_major: a pre-release of the release aimed at counts
\* as before it, so the release is kept
NextMicro(version) ==
    Final(Major(version), Minor(version),
          IF IsPrerelease(version) THEN Micro(version) ELSE Micro(version) + 1)
NextMinor(version) ==
    Final(Major(version),
          IF IsPrerelease(version) /\ Micro(version) = 0
          THEN Minor(version) ELSE Minor(version) + 1,
          0)
NextMajor(version) ==
    Final(IF IsPrerelease(version) /\ Minor(version) = 0 /\ Micro(version) = 0
          THEN Major(version) ELSE Major(version) + 1,
          0, 0)

\* next_alpha, next_beta, next_release_candidate: the first pre-release of the next
\* micro release, the next number of the same kind, the first of a higher kind, or a
\* TypeError for a lower kind
NextPre(version, kind) ==
    IF ~IsPrerelease(version)
    THEN Ok(Some(VersionOf(NextMicro(version).release, PreRelease(kind, 1))), {})
    ELSE LET release == <<Major(version), Minor(version), Micro(version)>>
             pre == Val(version.pre)
         IN IF pre.kind = kind
            THEN Ok(Some(VersionOf(release, PreRelease(kind, pre.n + 1))), {})
            ELSE IF Rank(pre.kind) < Rank(kind)
                 THEN Ok(Some(VersionOf(release, PreRelease(kind, 1))), {})
                 ELSE Err("TypeError", "next pre-release", {})

---------------------------------------------------------------------------
(* BumpCommand.handle *)

\* log(...) followed by return
Logged(message) == [kind |-> "ok", site |-> message, out |-> None, io |-> {}]

\* lines 26-60: the next version, a logged return, or the library's error
NextVersion(version, what, pre) ==
    IF what # None
    THEN IF what = Some("major") THEN Ok(Some(NextMajor(version)), {})
         ELSE IF what = Some("minor") THEN Ok(Some(NextMinor(version)), {})
         ELSE IF what = Some("micro") THEN Ok(Some(NextMicro(version)), {})
         ELSE IF what = Some("pre-release")
              THEN IF pre # None
                   THEN IF pre = Some("alpha") THEN NextPre(version, Alpha)
                        ELSE IF pre = Some("beta") THEN NextPre(version, Beta)
                        ELSE IF pre \in {Some("rc"), Some("c")}
                             THEN NextPre(version, ReleaseCandidate)
                             ELSE Logged("Invalid pre-release")
                   ELSE Logged("No pre-release kind set")
         ELSE IF what = Some("no-pre-release")
              THEN Ok(Some(Final(Major(version), Minor(version), Micro(version))), {})
              ELSE Logged("Invalid version part to bump")
    ELSE Logged("No version part to bump set")

\* lines 19-60: what handle has in next_version when it reaches line 62, or how it
\* left before
HandleOutcome(m, what, pre) ==
    LET version_value == GetPyprojectValue(m, KeyVersion)
    IN IF version_value = None
       THEN Logged("Cannot find version")
       ELSE LET version == ParseVersion(Val(version_value))
            IN IF version = None
               THEN Err("InvalidVersion", "Version", {})
               ELSE NextVersion(Val(version), what, pre)

\* the positional arguments line 63 passes after the value: one string
SetKeys == <<"project, version">>

\* config.set_pyproject_value(value, *keys): the value is stored at the key path
SetPyprojectValue(m, value, keys) == WithEntry(m, keys, Some(value))

PyprojectFile == PathJoin(ProjectRoot, "pyproject.toml")
SetOf(key) == <<"set", key>>

\* line 62: whether handle reached it with a next version
HasNextVersion(r) == r.kind = "ok" /\ r.out # None

\* lines 62-63: the manifest when handle is left
Updated(m, r) ==
    IF HasNextVersion(r) THEN SetPyprojectValue(m, Str(Val(r.out)), SetKeys) ELSE m

\* (mutant) write_pyproject runs on every path that returns
WrittenOnReturn(written, m, r) == IF r.kind = "ok" THEN Some(m) ELSE written

\* lines 62-64: what project.write_pyproject(True) has written when handle is left
Written(written, m, r) == IF HasNextVersion(r) THEN Some(m) ELSE written

\* handle(project, options), options.what = what and options.pre = pre
Handle(what, pre) ==
    LET r == HandleOutcome(manifest, what, pre)
    IN /\ manifest' = Updated(manifest, r)
       /\ pyproject' = Written(pyproject, manifest', r)
       /\ ret' = [op |-> "handle", arg |-> Some(<<what, pre>>),
                  kind |-> r.kind, site |-> r.site,
                  out |-> IF HasNextVersion(r) THEN Some(Str(Val(r.out))) ELSE None,
                  io |-> {ManifestOf(KeyVersion)}
                           \cup (IF HasNextVersion(r)
                                 THEN {SetOf(SetKeys), WriteOf(PyprojectFile)} ELSE {}),
                  pre |-> None]
       /\ UNCHANGED <<files, store, cache, firstGet, changes>>

---------------------------------------------------------------------------
(* Specifications *)

FileA == PathJoin(ProjectRoot, "a.py")
FileB == PathJoin(ProjectRoot, "b.py")

\* the texts an out-of-band edit leaves in a file
EditTexts == {LineCommented, LineSingleQuoted \o <<NL>> \o LineCommented, LineOther}

\* the versions a caller of the store writes: the fixed ones and the file's own
WriteVersions(text) ==
    NewVersions \cup (IF ReadVersion(text) # None THEN {Val(ReadVersion(text))} ELSE {})

\* The resolver: a fresh DynamicVersionSource on any manifest.
Init ==
    /\ files = [p \in FilePaths |-> IF p = FileA THEN LineCommented ELSE LineOther]
    /\ manifest \in Manifests
    /\ store = NewDynamicVersionConfig(FileA)
    /\ cache = None
    /\ ret = Returned("init", None, None, {})
    /\ firstGet = None
    /\ changes = 0
    /\ pyproject = None

Next ==
    \/ IsEnabled
    \/ GetCurrentVersion
    \/ \E version \in Versions : SetCurrentVersion(version)
    \/ SaveValue
    \/ FindDynamicConfigCall
    \/ \E key \in Keys : \E value \in ValuesOf(key) : ManifestChange(key, value)
    \/ \E path \in FilePaths : \E text \in EditTexts : FileChange(path, text)

Spec == Init /\ [][Next]_vars

\* The store: a fresh DynamicVersionConfig on a file holding any text, beside a
\* second file that no step of this specification names.
InitStore ==
    /\ files \in {[p \in FilePaths |-> IF p = FileA THEN t ELSE LineCommented] : t \in Texts}
    /\ manifest = Entry(KeyBackend, Some(PdmBackend)) @@ Entry(KeySource, Some(FileSource))
                    @@ Entry(KeyPath, Some("a.py"))
    /\ store = NewDynamicVersionConfig(FileA)
    /\ cache = None
    /\ ret = Returned("init", None, None, {})
    /\ firstGet = None
    /\ changes = 0
    /\ pyproject = None

NextStore ==
    \/ Construct(FileA)
    \/ DynamicVersion
    \/ \E new_version \in WriteVersions(files[store.file]) : ReplaceDynamicVersion(new_version)
    \/ \E text \in EditTexts : FileChange(FileA, text)

SpecStore == InitStore /\ [][NextStore]_vars

\* the values of project.version: 1.2.3, 1.2.3a1, 2.0.0rc1, 1.2, one
ProjectVersions ==
    {None,
     Some(<<"1", ".", "2", ".", "3">>),
     Some(<<"1", ".", "2", ".", "3", "a", "1">>),
     Some(<<"2", ".", "0", ".", "0", "r", "c", "1">>),
     Some(<<"1", ".", "2">>),
     Some(<<"o", "n", "e">>)}

\* options.what: absent, the choices of line 11, and a string that is none of them
Whats ==
    {None, Some("major"), Some("minor"), Some("micro"), Some("pre-release"),
     Some("no-pre-release"), Some("patch")}

\* options.pre: absent, the choices of line 12, and a string that is none of them
Pres == {None, Some("alpha"), Some("beta"), Some("rc"), Some("c"), Some("dev")}

\* The bump command: handle called on a project whose manifest holds any of the
\* values of project.version, or none.
InitBump ==
    /\ files = [p \in FilePaths |-> IF p = FileA THEN LineCommented ELSE LineOther]
    /\ manifest \in {Entry(KeyVersion, v) : v \in ProjectVersions}
    /\ store = NewDynamicVersionConfig(FileA)
    /\ cache = None
    /\ ret = Returned("init", None, None, {})
    /\ firstGet = None
    /\ changes = 0
    /\ pyproject = None

NextBump == \E what \in Whats : \E pre \in Pres : Handle(what, pre)

SpecBump == InitBump /\ [][NextBump]_vars

---------------------------------------------------------------------------
(* Claims about the store (specification SpecStore) *)

\* __version__ = "9.9.9"  # comment
LineRewritten ==
    VersionKey \o <<" ", "=", " ", DQ, "9", ".", "9", ".", "9", DQ, " ", " ", "#">>
        \o <<" ", "c", "o", "m", "m", "e", "n", "t">>

\* new is old with the characters from offset a up to offset b replaced by w
ReplacedBetween(old, new, a, b, w) ==
    /\ Len(new) = a + Len(w) + (Len(old) - b)
    /\ \A i \in 1..a : new[i] = old[i]
    /\ \A i \in 1..Len(w) : new[a + i] = w[i]
    /\ \A i \in (b + 1)..Len(old) : new[a + Len(w) + (i - b)] = old[i]

\* C1: a replace_dynamic_version(W) on a file in which the pattern matches succeeds and
\* leaves the file as the old text before the span of the version group, then W, then
\* the old text after that span; no other file changes; the commented line with 1.2.3
\* and W = 9.9.9 becomes exactly the commented line with 9.9.9.
C1_SpanRewrite ==
    [][(ret'.op = "replace_dynamic_version" /\ Search(files[store.file]) # None) =>
        LET old == files[store.file]
            new == files'[store.file]
            w == Val(ret'.arg)
            m == Val(Search(old))
        IN /\ ret'.kind = "ok"
           /\ ReplacedBetween(old, new, m.vstart, m.vend, w)
           /\ \A p \in FilePaths \ {store.file} : files'[p] = files[p]
           /\ (old = LineCommented /\ w = <<"9", ".", "9", ".", "9">>) => new = LineRewritten
      ]_vars

\* C1 witness: 9.9.9 was written and the file is the commented line with 9.9.9, quotes
\* and comment as they were.
C1_Witness ==
    /\ ret.op = "replace_dynamic_version"
    /\ ret.kind = "ok"
    /\ ret.arg = Some(<<"9", ".", "9", ".", "9">>)
    /\ ret.pre = Some(LineCommented)
    /\ files[store.file] = LineRewritten

---------------------------------------------------------------------------
(* Claims about the resolver (specification Spec) *)

\* the manifest names a file source and its path
Configured(m) == SelectsFileSource(m) /\ GetPyprojectValue(m, KeyPath) # None
\* the file the manifest's path names
Target(m) == PathJoin(ProjectRoot, Val(GetPyprojectValue(m, KeyPath)))

\* C2 (as claimed): a read of current_version on an Unresolved resolver, the manifest
\* naming a file source and the file holding a matching line with a version string,
\* succeeds, returns the version parsed from the matched group, and leaves it cached.
C2_ResolvesFromFile ==
    [][(/\ ret'.op = "current_version"
        /\ cache = None
        /\ Configured(manifest)
        /\ ReadVersion(files[Target(manifest)]) # None
        /\ ParseRelease(Val(ReadVersion(files[Target(manifest)]))) # None)
       =>
       /\ ret'.kind = "ok"
       /\ ret'.out = ParseRelease(Val(ReadVersion(files[Target(manifest)])))
       /\ cache' = ret'.out
      ]_vars

\* C3: a read of current_version on a resolver holding a version succeeds with the
\* held value, reads neither a file nor the manifest and leaves the cache as it was;
\* and the value a read once returned stays the held value through every later step
\* (reads, saves, is_enabled, out-of-band changes of files and manifest) until a caller
\* sets another: so every later read returns the first read's value.
C3_CachedRead ==
    [][/\ (ret'.op = "current_version" /\ cache # None) =>
            /\ ret'.kind = "ok"
            /\ ret'.out = cache
            /\ ret'.io = {}
            /\ cache' = cache
       /\ firstGet' # None => cache' = Some(Val(firstGet').value)
      ]_vars

\* C3 witness: a read succeeded, then a file or the manifest changed, then a read gave
\* the first value again although the manifest now names no source to read it from.
C3_Witness ==
    /\ ret.op = "current_version"
    /\ ret.kind = "ok"
    /\ firstGet # None
    /\ Val(firstGet).at < changes
    /\ ret.out = Some(Val(firstGet).value)
    /\ ~SelectsFileSource(manifest)

\* C4: save_value on an Unresolved resolver raises the ValueError "No current value
\* set" whatever the manifest and the files hold, having read nothing, and leaves the
\* files, the manifest and the cache as they were.
C4_SaveUnresolved ==
    [][(ret'.op = "save_value" /\ cache = None) =>
        /\ ret'.kind = "ValueError"
        /\ ret'.site = "No current value set"
        /\ ret'.io = {}
        /\ files' = files
        /\ manifest' = manifest
        /\ cache' = None
      ]_vars

\* C4 witness: the precondition failure happened on a manifest that selects no file
\* source, so deriving the descriptor first would have failed differently.
C4_Witness ==
    /\ ret.op = "save_value"
    /\ ret.kind = "ValueError"
    /\ ret.site = "No current value set"
    /\ cache = None
    /\ ~SelectsFileSource(manifest)

\* C5 (as claimed): save_value on a Resolved resolver, the manifest naming a file source
\* and the file matching, succeeds, leaves the file with the canonical string of the
\* cached version in the span of the version group and nothing else changed, and
\* leaves the cache as it was.
C5_SaveWritesCache ==
    [][(/\ ret'.op = "save_value"
        /\ cache # None
        /\ Configured(manifest)
        /\ Search(files[Target(manifest)]) # None)
       =>
       LET old == files[Target(manifest)]
           m == Val(Search(old))
       IN /\ ret'.kind = "ok"
          /\ ReplacedBetween(old, files'[Target(manifest)], m.vstart, m.vend,
                             Format(Val(cache)))
          /\ \A p \in FilePaths \ {Target(manifest)} : files'[p] = files[p]
          /\ cache' = cache
      ]_vars

\* C8: is_enabled returns TRUE exactly when the manifest has project.dynamic and that
\* list holds "version" (FALSE for a missing key, an empty list, a list without it); it
\* reads that one manifest key as it is at the call and changes neither the cache, the
\* files nor the manifest.
C8_IsEnabled ==
    [][ret'.op = "is_enabled" =>
        LET listed == KeyDynamic \in DOMAIN manifest
            items == IF listed THEN {manifest[KeyDynamic][i] : i \in DOMAIN manifest[KeyDynamic]}
                     ELSE {}
        IN /\ ret'.kind = "ok"
           /\ ret'.out = Some("version" \in items)
           /\ ~listed => ret'.out = Some(FALSE)
           /\ items = {} => ret'.out = Some(FALSE)
           /\ ret'.io = {ManifestOf(KeyDynamic)}
           /\ cache' = cache
           /\ files' = files
           /\ manifest' = manifest
      ]_vars

\* C8 witness: is_enabled answered TRUE on a list holding "version" beside another
\* entry, after the manifest or a file was changed, on a resolver holding a version.
C8_Witness ==
    /\ ret.op = "is_enabled"
    /\ ret.out = Some(TRUE)
    /\ KeyDynamic \in DOMAIN manifest
    /\ manifest[KeyDynamic] = <<"readme", "version">>
    /\ changes > 0
    /\ cache # None

\* C9 (as claimed): find_dynamic_config gives a store exactly when build-backend is
\* pdm.pep517.api and the version source is file; for every other pair of values a read
\* of current_version on an Unresolved resolver raises the ValueError "Failed to extract
\* dynamic version", reads no file and leaves the resolver Unresolved.
C9_SourceGate ==
    [][/\ (ret'.op = "find_dynamic_config" /\ ret'.kind = "ok") =>
            (ret'.out # None <=>
                (/\ KeyBackend \in DOMAIN manifest
                 /\ manifest[KeyBackend] = "pdm.pep517.api"
                 /\ KeySource \in DOMAIN manifest
                 /\ manifest[KeySource] = "file"))
       /\ (ret'.op = "current_version" /\ cache = None /\ ~SelectsFileSource(manifest)) =>
            /\ ret'.kind = "ValueError"
            /\ ret'.site = "Failed to extract dynamic version"
            /\ \A p \in FilePaths : ReadOf(p) \notin ret'.io
            /\ cache' = None
      ]_vars

\* C10 (as claimed): with the manifest naming a file source and a file in which the
\* pattern matches nowhere, a read of current_version on an Unresolved resolver raises
\* the ValueError "Failed to find version" and no other kind of error, and changes no
\* file.
C10_NoMatch ==
    [][(/\ ret'.op = "current_version"
        /\ cache = None
        /\ Configured(manifest)
        /\ Search(files[Target(manifest)]) = None)
       =>
       /\ ret'.kind = "ValueError"
       /\ ret'.site = "Failed to find version"
       /\ files' = files
      ]_vars

---------------------------------------------------------------------------
(* Claims about the store, continued (specification SpecStore) *)

\* the version group of the match that starts at position p
VersionAt(text, p) ==
    LET vs == VersionStart(text, p)
    IN SubSeq(text, vs, Min(VersionEnds(text, vs)) - 1)

\* C6 (as claimed): on a file in which the pattern matches with version V,
\* replace_dynamic_version(V) followed by dynamic_version gives V, and the file outside
\* the span of the version group is as it was (stated for runs in which nothing but
\* the store touched the file).
C6_RoundTrip ==
    [][(/\ changes = 0
        /\ ret.op = "replace_dynamic_version"
        /\ ret.kind = "ok"
        /\ ReadVersion(Val(ret.pre)) = ret.arg
        /\ ret'.op = "dynamic_version")
       =>
       LET old == Val(ret.pre)
           m == Val(Search(old))
       IN /\ ret'.out = ret.arg
          /\ ReplacedBetween(old, files'[store.file], m.vstart, m.vend, Val(ret.arg))
      ]_vars

\* C7 (as claimed): the first match from the top is the one used: when the pattern
\* matches at several places of the file, dynamic_version gives the version of the first
\* of them (stated for runs in which nothing but the store touched the file), and
\* replace_dynamic_version rewrites the first and leaves the text after it, every later
\* match with it, as it was.
C7_FirstMatchUsed ==
    /\ (/\ changes = 0
        /\ ret.op = "dynamic_version"
        /\ Cardinality(MatchStarts(files[store.file])) >= 2) =>
          ret.out = Some(VersionAt(files[store.file], Min(MatchStarts(files[store.file]))))
    /\ (ret.op = "replace_dynamic_version" /\ ret.kind = "ok") =>
          LET old == Val(ret.pre)
              first == Min(MatchStarts(old))
              vs == VersionStart(old, first)
              ve == vs + Len(VersionAt(old, first))
          IN ReplacedBetween(old, files[store.file], vs - 1, ve - 1, Val(ret.arg))

\* C7, the part the code keeps: a dynamic_version that searches the file (the first on
\* its store instance) finds a match whenever some line of the file matches on its own,
\* and gives the version of the topmost match; replace_dynamic_version rewrites the
\* topmost match only.
C7_FirstMatchWhenSearched ==
    /\ (ret.op = "dynamic_version" /\ ret.io # {}) =>
          LET text == files[store.file]
          IN IF MatchStarts(text) = {}
             THEN ret.out = None
             ELSE ret.out = Some(VersionAt(text, Min(MatchStarts(text))))
    /\ (ret.op = "replace_dynamic_version" /\ ret.kind = "ok") =>
          LET old == Val(ret.pre)
              first == Min(MatchStarts(old))
              vs == VersionStart(old, first)
              ve == vs + Len(VersionAt(old, first))
          IN ReplacedBetween(old, files[store.file], vs - 1, ve - 1, Val(ret.arg))

---------------------------------------------------------------------------
(* Claims about the resolver's cache (specification Spec) *)

PathAbsent(m) == SelectsFileSource(m) /\ GetPyprojectValue(m, KeyPath) = None

\* the file accesses among a step's accesses
FileAccesses(io) == {a \in io : a[1] \in {"read", "write"}}

\* C12: with the file source selected and tool.pdm.version.path missing, a read of
\* current_version on a resolver holding nothing and a save_value on a resolver
\* holding a version fail with the ValueError of line 137 ("Failed to extract
\* dynamic version", the configuration error), and read and write no file.
C12_PathAbsent ==
    [][(/\ PathAbsent(manifest)
        /\ \/ ret'.op = "current_version" /\ cache = None
           \/ ret'.op = "save_value" /\ cache # None)
       =>
       /\ ret'.kind = "ValueError"
       /\ ret'.site = "Failed to extract dynamic version"
       /\ FileAccesses(ret'.io) = {}
       /\ files' = files
      ]_vars

---------------------------------------------------------------------------
(* Claims about the store's reads and failed writes (specification SpecStore) *)

\* C14: every replace_dynamic_version call reads the file and searches the content
\* the file holds at the call; when that content has no match the call raises
\* ValueError("Failed to fetch version") and every file holds what it held, also
\* on a store whose dynamic_version found a version before the file changed.
C14_FailedWriteKeepsFile ==
    [][ret'.op = "replace_dynamic_version"
       =>
       /\ ReadOf(store.file) \in ret'.io
       /\ ret'.pre = Some(files[store.file])
       /\ (ret'.kind = "ok") = (Search(files[store.file]) # None)
       /\ Search(files[store.file]) = None
          => /\ ret'.kind = "ValueError"
             /\ ret'.site = "Failed to fetch version"
             /\ WriteOf(store.file) \notin ret'.io
             /\ files' = files
      ]_vars

\* a write failed on a store that had read 1.2.3 from the file, changed since
C14_Witness ==
    /\ ret.op = "replace_dynamic_version"
    /\ ret.kind = "ValueError"
    /\ store.slot = Some(Some(<<"1", ".", "2", ".", "3">>))
    /\ changes > 0
    /\ ret.pre = Some(LineOther)
    /\ files[store.file] = LineOther

\* C15: every dynamic_version read of a store returns the version found in the
\* content the file holds at that read (None when it holds no match), whatever an
\* earlier read of the same store returned.
C15_ReadIsFresh ==
    ret.op = "dynamic_version" => ret.out = ReadVersion(files[store.file])

---------------------------------------------------------------------------
(* Claims about the resolver and the live manifest (specification Spec) *)

\* C16: save_value on a resolver holding a version, after the manifest changed out
\* of band, acts on the manifest as it is at the save: when the backend or the
\* source no longer selects the file source it raises the ValueError of line 137
\* and writes no file; when the path names a file holding a match it rewrites that
\* file and leaves every other file, the file of the former path among them,
\* unchanged.
C16_SaveDerivesLive ==
    [][(ret'.op = "save_value" /\ cache # None /\ changes > 0)
       =>
       /\ ~SelectsFileSource(manifest)
          => /\ ret'.kind = "ValueError"
             /\ ret'.site = "Failed to extract dynamic version"
             /\ files' = files
       /\ (Configured(manifest) /\ Search(files[Target(manifest)]) # None)
          => /\ ret'.kind = "ok"
             /\ WriteOf(Target(manifest)) \in ret'.io
             /\ files'[Target(manifest)] # files[Target(manifest)]
                   \/ ReadVersion(files[Target(manifest)]) = Some(Format(Val(cache)))
             /\ ReadVersion(files'[Target(manifest)]) = Some(Format(Val(cache)))
             /\ \A p \in FilePaths \ {Target(manifest)} : files'[p] = files[p]
      ]_vars

\* C17: a resolver starts holding nothing; once it holds a version it holds one
\* after every step (is_enabled, reads, sets of a version, saves that fail or not,
\* out-of-band changes), and the version held changes through a set only; an empty
\* cache is filled by a set or by a read that succeeded.
C17_ResolvedAbsorbing ==
    /\ cache = None
    /\ [][/\ cache # None => cache' # None
          /\ cache' # cache
             => \/ ret'.op = "set_current_version" /\ cache' = ret'.arg
                \/ cache = None /\ ret'.op = "current_version" /\ ret'.kind = "ok"
         ]_vars

\* a resolver holding 1.2.3 after a read of it, two out-of-band changes and a save
\* that failed
C17_Witness ==
    /\ cache = Some(<<1, 2, 3>>)
    /\ firstGet # None
    /\ changes = MaxChanges
    /\ ret.op = "save_value"
    /\ ret.kind # "ok"

\* C18: a read of current_version that fails leaves the cache empty and every file
\* as it was; a save_value directly after it raises ValueError("No current value
\* set"); and the cache being empty, a read after it resolves anew: on a manifest
\* that names a file it reads that file.
C18_FailedGet ==
    [][/\ (ret'.op = "current_version" /\ ret'.kind # "ok")
          => /\ cache = None
             /\ cache' = None
             /\ files' = files
       /\ (ret.op = "current_version" /\ ret.kind # "ok" /\ ret'.op = "save_value")
          => /\ ret'.kind = "ValueError"
             /\ ret'.site = "No current value set"
             /\ files' = files
       /\ (ret'.op = "current_version" /\ cache = None /\ Configured(manifest))
          => ReadOf(Target(manifest)) \in ret'.io
      ]_vars

\* the parts of C18 that hold whatever made the read fail
C18_FailedGetKeepsUnresolved ==
    [][/\ (ret'.op = "current_version" /\ ret'.kind # "ok")
          => /\ cache = None
             /\ cache' = None
             /\ files' = files
       /\ (ret.op = "current_version" /\ ret.kind # "ok" /\ ret'.op = "save_value")
          => /\ ret'.kind = "ValueError"
             /\ ret'.site = "No current value set"
             /\ files' = files
      ]_vars

---------------------------------------------------------------------------
(* Claims about the bump command (specification SpecBump) *)

\* the bump kinds that give a next version: major, minor, micro, no-pre-release, and
\* pre-release with a kind of pre-release
IsBump(what, pre) ==
    \/ what \in {Some("major"), Some("minor"), Some("micro"), Some("no-pre-release")}
    \/ what = Some("pre-release") /\ pre \in {Some("alpha"), Some("beta"), Some("rc"), Some("c")}

\* C13: when handle, called with a bump kind on a manifest that holds
\* project.version, returns, the manifest holds the string of the next version at
\* the key path project -> version, and the manifest written out is that manifest.
C13_BumpSetsVersion ==
    [][(/\ ret'.op = "handle"
        /\ ret'.kind = "ok"
        /\ GetPyprojectValue(manifest, KeyVersion) # None
        /\ IsBump(Val(ret'.arg)[1], Val(ret'.arg)[2]))
       =>
       /\ ret'.out # None
       /\ GetPyprojectValue(manifest', KeyVersion) = ret'.out
       /\ pyproject' = Some(manifest')
      ]_vars

\* the parts of C13 that hold: the next version is computed and a manifest is written
C13_BumpWrites ==
    [][(/\ ret'.op = "handle"
        /\ ret'.kind = "ok"
        /\ GetPyprojectValue(manifest, KeyVersion) # None
        /\ IsBump(Val(ret'.arg)[1], Val(ret'.arg)[2]))
       =>
       /\ ret'.out # None
       /\ GetPyprojectValue(manifest', SetKeys) = ret'.out
       /\ GetPyprojectValue(manifest', KeyVersion) = GetPyprojectValue(manifest, KeyVersion)
       /\ pyproject' = Some(manifest')
      ]_vars

\* C19: handle sets a manifest value and writes the manifest only when it computed a
\* next version: with project.version missing, with what = pre-release and no kind
\* of pre-release, and with a what that is no bump kind, it returns after logging,
\* the manifest and what was written last being what they were.
C19_NoBumpNoWrite ==
    [][ret'.op = "handle"
       =>
       LET what == Val(ret'.arg)[1]
           pre == Val(ret'.arg)[2]
       IN /\ (\/ GetPyprojectValue(manifest, KeyVersion) = None
              \/ what = Some("pre-release") /\ pre = None
              \/ what \notin {Some("major"), Some("minor"), Some("micro"),
                              Some("pre-release"), Some("no-pre-release")})
             => /\ ret'.kind = "ok"
                /\ ret'.site # ""
                /\ ret'.out = None
                /\ manifest' = manifest
                /\ pyproject' = pyproject
                /\ ret'.io = {ManifestOf(KeyVersion)}
          /\ (manifest' # manifest \/ pyproject' # pyproject \/ ret'.io # {ManifestOf(KeyVersion)})
             => ret'.out # None
      ]_vars

\* project.version is missing or holds a string Version(...) accepts
VersionReadable(m) ==
    LET version_value == GetPyprojectValue(m, KeyVersion)
    IN version_value # None => ParseVersion(Val(version_value)) # None

\* C19 (amended): handle sets a manifest value and writes the manifest only when it
\* computed a next version.  With project.version missing it returns after
\* logging; with project.version a version string, it returns after logging when
\* what = pre-release has no kind of pre-release and when what is no bump kind;
\* with project.version a string that is no version, line 25 raises before what
\* is looked at.  In each of these the manifest and what was written last are
\* what they were.
C19_NoBumpNoWriteAmended ==
    [][ret'.op = "handle"
       =>
       LET what == Val(ret'.arg)[1]
           pre == Val(ret'.arg)[2]
           missing == GetPyprojectValue(manifest, KeyVersion) = None
       IN /\ (\/ missing
              \/ what = Some("pre-release") /\ pre = None
              \/ what \notin {Some("major"), Some("minor"), Some("micro"),
                              Some("pre-release"), Some("no-pre-release")})
             => /\ IF VersionReadable(manifest)
                   THEN ret'.kind = "ok" /\ ret'.site # ""
                   ELSE ret'.kind = "InvalidVersion"
                /\ ret'.out = None
                /\ manifest' = manifest
                /\ pyproject' = pyproject
                /\ ret'.io = {ManifestOf(KeyVersion)}
          /\ ~VersionReadable(manifest) => ret'.kind = "InvalidVersion"
          /\ (manifest' # manifest \/ pyproject' # pyproject \/ ret'.io # {ManifestOf(KeyVersion)})
             => ret'.out # None
      ]_vars

\* handle, called with a what that is no bump kind on a manifest that was bumped
\* before, returned after logging and left the manifest and the written one alone
C19_Witness ==
    /\ ret.op = "handle"
    /\ ret.kind = "ok"
    /\ ret.out = None
    /\ Val(ret.arg)[1] = Some("patch")
    /\ ret.site = "Invalid version part to bump"
    /\ pyproject # None
    /\ pyproject = Some(manifest)

====
